---- MODULE Spec2Model ----
(***************************************************************************)
(* State-machine model of web_sales_analytic_pipeline: the Jumia scraper   *)
(* (src/scraping), the cleaner (src/transform) and the loader (src/load).  *)
(*                                                                         *)
(* Spec      : one Jumia.run() call on a fresh Jumia instance.             *)
(* SpecFetch : Base._make_request called repeatedly on one instance, with  *)
(*             the max_retries argument drawn from a bounded set.          *)
(* SpecOrch  : one ScraperOrchestrator.run(website, ...) call, and the     *)
(*             Jumia run it starts.                                        *)
(* SpecUrl   : one utils.handle_url(url, base_url) call.                   *)
(* SpecClean : one CleanData.run() call over a raw directory.              *)
(* SpecPrice : one CleanData._clean_price(price_str) call.                 *)
(* SpecLoad  : PostgresLoader.load_data called repeatedly on one table.    *)
(* SpecExtract : one Jumia._extract_product_data call on one fragment.     *)
(* SpecList  : Jumia.run() on sites with cyclic next-page links, without   *)
(*             KeyboardInterrupt and with weak fairness of its steps.      *)
(* SpecSteady : Jumia.run() when every write succeeds and the day stays    *)
(*             the same.                                                   *)
(*                                                                         *)
(* Environment choices (the server's answers, an exception while a page is *)
(* parsed, a failing file write, the calendar date changing, the user's    *)
(* Ctrl-C) are nondeterministic.  A KeyboardInterrupt is delivered at most *)
(* once per run and between two steps of the model.  The calendar day is   *)
(* read by the saves only, so the model lets it advance when a save reads  *)
(* it.                                                                     *)
(***************************************************************************)
EXTENDS Integers, Sequences, FiniteSets, TLC

(***************************************************************************)
(* Values                                                                  *)
(***************************************************************************)
\* Python's None, for integer-valued slots (max_products, record fields).
None == 0 - 1

\* The empty string '' of a CSV cell.
EmptyStr == 0

\* Mutant: the test is `x is not None`.
TruthyUnlessNone(x) == x /= None

\* Python truthiness of an int-or-None value: None and 0 are falsy.
Truthy(x) == x /= None /\ x /= 0

(***************************************************************************)
(* Bounds of the model                                                     *)
(***************************************************************************)
\* Largest number of page fetches one scrape_product_list call may start
\* (caps the otherwise unbounded crawl of cyclic next-page links).
MaxFetches == 3

\* Number of calendar days the run may span.
NumDays == 2

\* Largest max_retries argument tried in SpecFetch.
MaxRetriesBound == 4

\* Number of _make_request calls made in a row in SpecFetch.
MaxCalls == 3

\* load_data calls made on one loader.
MaxLoads == 2

\* Longest url argument of handle_url in SpecUrl, in pieces.
MaxUrlLen == 4

\* Most raw CSV files in the directory the cleaner processes.
MaxFiles == 2

\* Longest enumerated text given to _clean_price in SpecPrice, in characters.
MaxPriceLen == 4

(***************************************************************************)
(* Program constants                                                       *)
(***************************************************************************)
\* _make_request(..., max_retries=3, ..., delay=1)
DefaultMaxRetries == 3
DefaultDelay == 1
\* "Incremental save every 100 products"
FlushEvery == 100
\* wait_time = (attempt + 1) * 2
BackoffUnit == 2
\* e.response.status_code == 404
NotFound == 404

(***************************************************************************)
(* URLs.  An href is [kind, path]: kind says how the attribute is spelled, *)
(* path which resource of its origin it names.  A resolved URL is          *)
(* [origin, path].                                                         *)
(*   "none"    the attribute is missing (Python None)                      *)
(*   "empty"   ''                                                          *)
(*   "abs_in"  https://www.jumia.ma/<path>                                 *)
(*   "abs_out" https://<another host>/<path>                               *)
(*   "abs_like" https://www.jumia.ma<more of a host name>/<path>: another  *)
(*             host, whose name begins with the site's                     *)
(*   "rooted"  /<path>                                                     *)
(*   "bare"    <path>       (relative, no leading slash)                   *)
(*   "frag"    #<path>                                                     *)
(***************************************************************************)
HrefKinds ==
    {"none", "empty", "abs_in", "abs_out", "abs_like", "rooted", "bare", "frag"}

Href(k, p) == [kind |-> k, path |-> p]

NoneUrl == [origin |-> "none", path |-> 0]

Url(o, p) == [origin |-> o, path |-> p]

\* self.base_url = "https://www.jumia.ma": the root of the site.
base_url == Url("site", 0)

(***************************************************************************)
(* URL strings.  A string is a sequence of pieces, each piece standing for *)
(* the characters it spells; a Python value that is a string or None is    *)
(* [none, text].  No piece other than the two scheme pieces begins with    *)
(* "http", and only "/" and "#" begin with those characters, so that the   *)
(* prefix tests of the code are prefix tests on pieces.                    *)
(***************************************************************************)
PyNone == [none |-> TRUE, text |-> << >>]

Str(t) == [none |-> FALSE, text |-> t]

\* Truthiness of a string or None: None and '' are falsy.
TruthyStr(v) == ~v.none /\ v.text /= << >>

\* str.startswith
StartsWith(t, prefix) ==
    Len(t) >= Len(prefix) /\ SubSeq(t, 1, Len(prefix)) = prefix

RECURSIVE rstrip(_, _)
\* str.rstrip(piece)
rstrip(t, piece) ==
    IF t /= << >> /\ t[Len(t)] = piece THEN rstrip(SubSeq(t, 1, Len(t) - 1), piece)
    ELSE t

\* Mutant: with a base_url the url is always joined to it.
handle_url_joins(url, base) ==
    IF ~TruthyStr(url) THEN PyNone
    ELSE IF TruthyStr(base)
         THEN IF StartsWith(url.text, << "/" >>)
              THEN Str(rstrip(base.text, "/") \o url.text)
              ELSE Str(rstrip(base.text, "/") \o << "/" >> \o url.text)
         ELSE url

\* utils.handle_url(url, base_url=None), on strings.
handle_url_str(url, base) ==
    IF ~TruthyStr(url) THEN PyNone
    ELSE IF StartsWith(url.text, << "http://" >>) \/ StartsWith(url.text, << "https://" >>)
    THEN url
    ELSE IF StartsWith(url.text, << "/" >>)
    THEN IF TruthyStr(base) THEN Str(rstrip(base.text, "/") \o url.text) ELSE url
    ELSE IF TruthyStr(base) THEN Str(rstrip(base.text, "/") \o << "/" >> \o url.text)
    ELSE url

\* "https://www.jumia.ma"
JumiaBaseUrl == << "https://", "www.jumia.ma" >>

\* The paths of the served resources, and the piece that spells one.
Paths == 0..29

PathPiece(p) == ToString(p)

\* How an href [kind, path] of the served markup is spelled.
Spelling(href) ==
    CASE href.kind = "none" -> PyNone
      [] href.kind = "empty" -> Str(<< >>)
      [] href.kind = "abs_in" -> Str(JumiaBaseUrl \o << "/", PathPiece(href.path) >>)
      [] href.kind = "abs_out" -> Str(<< "https://", "cdn.other.example", "/", PathPiece(href.path) >>)
      [] href.kind = "abs_like" ->
            Str(JumiaBaseUrl \o << ".evil.example", "/", PathPiece(href.path) >>)
      [] href.kind = "rooted" -> Str(<< "/", PathPiece(href.path) >>)
      [] href.kind = "bare" -> Str(<< PathPiece(href.path) >>)
      [] href.kind = "frag" -> Str(<< "#", PathPiece(href.path) >>)

\* What a request for a URL string addresses: the origin (the site when the
\* string is the site's scheme and host followed by nothing or by a path,
\* another host otherwise) and the path of the resource.
ParseUrl(v) ==
    IF v.none THEN NoneUrl
    ELSE LET t == v.text
             on_site == /\ StartsWith(t, JumiaBaseUrl)
                        /\ Len(t) > Len(JumiaBaseUrl) => t[Len(JumiaBaseUrl) + 1] = "/"
             named == {p \in Paths : t /= << >> /\ PathPiece(p) = t[Len(t)]}
         IN  Url(IF on_site THEN "site" ELSE "other",
                 IF named = {} \/ (Len(t) > 1 /\ t[Len(t) - 1] = "#") THEN 0
                 ELSE CHOOSE p \in named : TRUE)

\* handle_url(href, self.base_url) as the scraper calls it, on an href of the
\* served markup, and the URL the result addresses.
handle_url(href) == ParseUrl(handle_url_str(Spelling(href), Str(JumiaBaseUrl)))

(***************************************************************************)
(* The served site.  A category page is                                    *)
(*   [n      number of listing fragments (article.prd._fb.col.c-prd),      *)
(*    button whether the page has an a.pg "suivante" element,              *)
(*    next   the href of that element,                                     *)
(*    nolink the fragments without an a.core element,                      *)
(*    broken the fragments on which _extract_product_data fails inside]    *)
(* and a site is [links: the menu links of the home page,                  *)
(*                pages: path -> category page].                           *)
(* Page p of category c lives at path c * 10 + p.                          *)
(***************************************************************************)
Pg(n, button, next, nolink, broken) ==
    [n |-> n, button |-> button, next |-> next, nolink |-> nolink, broken |-> broken]

LastPg(n) == Pg(n, FALSE, Href("none", 0), {}, {})

NextPg(n, path) == Pg(n, TRUE, Href("rooted", path), {}, {})

Link(k, p, textlen) == [href |-> Href(k, p), textlen |-> textlen]

\* One category of three pages holding 10, 10 and 4 listings.
SiteThreePages ==
    [links |-> << Link("rooted", 11, 9) >>,
     pages |-> (11 :> NextPg(10, 12)) @@ (12 :> NextPg(10, 13)) @@ (13 :> LastPg(4))]

\* Two categories of 60 listings: the first one's next-page element has an
\* empty href, the second one ends on a page without listings.
SiteTwoBig ==
    [links |-> << Link("rooted", 11, 5), Link("abs_in", 21, 7) >>,
     pages |-> (11 :> Pg(60, TRUE, Href("empty", 0), {}, {}))
               @@ (21 :> NextPg(60, 22)) @@ (22 :> NextPg(0, 23)) @@ (23 :> LastPg(5))]

\* A category whose next link leads back to its first page; fragments without
\* a detail link and one fragment that cannot be extracted; menu links that
\* the catalog builder filters.
SiteCycle ==
    [links |-> << Link("frag", 11, 8), Link("rooted", 11, 2), Link("abs_out", 11, 6),
                  Link("bare", 11, 6), Link("empty", 0, 4), Link("rooted", 12, 0) >>,
     pages |-> (11 :> Pg(3, TRUE, Href("bare", 12), {2}, {3}))
               @@ (12 :> Pg(2, TRUE, Href("abs_in", 11), {1, 2}, {}))]

\* The same category linked twice, under two spellings of its URL; its second
\* page has a next-page element without an href.
SiteNoHref ==
    [links |-> << Link("rooted", 11, 4), Link("abs_in", 11, 4) >>,
     pages |-> (11 :> NextPg(2, 12)) @@ (12 :> Pg(2, TRUE, Href("none", 0), {}, {1}))]

\* A home page without category links.
SiteNoLinks == [links |-> << >>, pages |-> (11 :> LastPg(1))]

\* A home page whose menu links to two other hosts, the second of which has
\* a name that begins with the site's.
SiteOtherHosts ==
    [links |-> << Link("abs_out", 11, 9), Link("abs_like", 11, 9) >>,
     pages |-> (11 :> LastPg(1))]

Sites ==
    {SiteThreePages, SiteTwoBig, SiteCycle, SiteNoHref, SiteNoLinks, SiteOtherHosts}

\* The max_products arguments tried: unlimited, 0, and finite caps.
Caps == {None, 0, 1, 15, 50}

(***************************************************************************)
(* Records and exports                                                     *)
(***************************************************************************)
\* The text a fragment carries: distinct for every fragment of the site.
TextOf(path, i) == path * 100 + i

\* Jumia._extract_product_data on fragment i of the page at `path`: None when
\* an exception is raised inside, else the dict.  Without an a.core element
\* 'sku' is None and the 'category' key is not set at all.
_extract_product_data(page, path, i) ==
    IF i \in page.broken THEN << >>
    ELSE IF i \in page.nolink
         THEN << [name |-> TextOf(path, i), sku |-> None] >>
         ELSE << [name |-> TextOf(path, i), sku |-> TextOf(path, i),
                  category |-> path] >>

\* csv.DictWriter(f, fieldnames=sorted(union of the keys)).writerows(data):
\* one row per dict over all the field names; a missing key and None are
\* both written as the empty string.
CsvFieldnames(data) == UNION {DOMAIN data[i] : i \in 1..Len(data)}

CsvCell(d, k) == IF k \in DOMAIN d /\ d[k] /= None THEN d[k] ELSE EmptyStr

CsvRows(data) ==
    [i \in 1..Len(data) |-> [k \in CsvFieldnames(data) |-> CsvCell(data[i], k)]]

\* json.dump(data): every dict with its own keys, None written as null.
JsonNull == 0 - 2

JsonRows(data) ==
    [i \in 1..Len(data) |->
        [k \in DOMAIN data[i] |-> IF data[i][k] = None THEN JsonNull ELSE data[i][k]]]

\* A file of the data directory: whether it exists, whether its last write ran
\* to the end, and the rows it then holds.
NoFile == [exists |-> FALSE, complete |-> FALSE, rows |-> << >>]

WholeFile(rows) == [exists |-> TRUE, complete |-> TRUE, rows |-> rows]

\* A file whose write failed after open(..., 'w') had truncated it: some
\* strict prefix of the text is on disk; which one is not tracked.
Truncated == [exists |-> TRUE, complete |-> FALSE, rows |-> << >>]

\* What a write can do: succeed, fail in open() (the file is left as it
\* was), or fail after open().
WriteOutcomes == {"ok", "open_error", "write_error"}

Written(old, rows, outcome) ==
    CASE outcome = "ok" -> WholeFile(rows)
      [] outcome = "open_error" -> old
      [] outcome = "write_error" -> Truncated

\* Mutant: the file is opened for appending.
_save_csv_append(old, data, outcome) ==
    IF data = << >> THEN old ELSE Written(old, old.rows \o CsvRows(data), outcome)

\* Base._save_csv(data, filename): nothing is written for empty data; an
\* exception of the write is caught and logged.
_save_csv(old, data, outcome) ==
    IF data = << >> THEN old ELSE Written(old, CsvRows(data), outcome)

\* Base._save_json(data, filename): an exception of the write is caught and
\* logged.
_save_json(old, data, outcome) == Written(old, JsonRows(data), outcome)

(***************************************************************************)
(* State                                                                   *)
(***************************************************************************)
VARIABLES
    pc,              \* where the program is
    site,            \* the site the server serves (input)
    do_categories,   \* run(scrape_categories=...)
    do_products,     \* run(scrape_products=...)
    max_products,    \* run(max_products=...): the per-category cap, or None
    categories,      \* self.categories
    products,        \* self.products: the shared buffer
    cat_idx,         \* scrape_all_categories: position in self.categories
    current_url,     \* scrape_product_list: current_url
    page_num,        \* scrape_product_list: page_num
    initial_count,   \* scrape_product_list: initial_count
    soup,            \* scrape_product_list: the parsed page being processed
    frag_idx,        \* scrape_product_list: next fragment of the for loop
    req_url,         \* _make_request: url
    max_retries,     \* _make_request: max_retries
    attempt,         \* _make_request: attempt
    ret_pc,          \* _make_request: where the call returns to
    response,        \* _make_request: "ok" (a response), "null" (None), "none"
    session_open,    \* self.session is usable (not yet closed)
    raw,             \* day -> jumia_products_<day>.csv
    partial_json,    \* products_partial.json
    partial_csv,     \* products_partial.csv
    today,           \* the calendar day of the last datetime.now() of a save
    cancelled,       \* a KeyboardInterrupt has been delivered
    \* history of the run, read by the properties only
    req_log,         \* GETs and sleeps of the _make_request call in progress
    calls,           \* number of _make_request calls started (SpecFetch)
    closes,          \* number of session.close() calls
    fetches,         \* _make_request calls of the current scrape_product_list
    follows,         \* next-page links followed by it
    exit_reason,     \* why its while loop was left
    last_saves,      \* the _save_csv / _save_json calls of the last step that saved
    invoked,         \* the scrape_product_list calls made: the URL, and whether
                     \* the call raised or entered its while loop
    home_fetch,      \* what scrape_categories got for the home page
    \* PostgresLoader (SpecLoad)
    table,           \* the rows of the products table, in insertion order
    data_tuples,     \* load_data: the rows of the last call
    load_result,     \* load_data: "none", "loaded" (returned), "raised"
    loads,           \* number of load_data calls made
    \* ScraperOrchestrator (SpecOrch)
    website,         \* ScraperOrchestrator.run(website=...)
    orch_error,      \* the exception ScraperOrchestrator.run raised, or "none"
    built,           \* number of scraper_class() calls made
    data_dir,        \* Base.__init__ has made the data and logs directories
    \* utils.handle_url (SpecUrl)
    url_arg,         \* handle_url: url
    base_arg,        \* handle_url: base_url
    url_result,      \* handle_url: the value returned
    \* CleanData.run (SpecClean)
    raw_dir,         \* data/raw/<website>: whether it exists, and its CSV files
    file_idx,        \* run: position of the for loop over files
    processed,       \* data/processed/<website>: file number -> saved rows
    clean_errors,    \* the errors run has logged, one per failed file
    run_result,      \* what run returned: "none", "True", "False"
    \* CleanData._clean_price (SpecPrice)
    price_str,       \* _clean_price: the cell given
    price_result,    \* _clean_price: the value returned, or "pending"
    \* Jumia._extract_product_data (SpecExtract)
    fragment,        \* the sub-elements the listing fragment holds
    record           \* the dict returned, None, or not yet returned

reqVars == << req_url, max_retries, attempt, ret_pc, response, req_log, calls >>

listVars == << current_url, page_num, initial_count, soup, frag_idx, fetches,
               follows, exit_reason >>

fileVars == << raw, partial_json, partial_csv, last_saves >>

inputVars == << site, do_categories, do_products, max_products >>

loadVars == << table, data_tuples, load_result, loads >>

\* The variables of the specifications other than Spec and SpecFetch.
orchVars == << website, orch_error, built, data_dir >>

urlVars == << url_arg, base_arg, url_result >>

cleanVars == << raw_dir, file_idx, processed, clean_errors, run_result >>

priceVars == << price_str, price_result >>

extractVars == << fragment, record >>

auxVars == << loadVars, orchVars, urlVars, cleanVars, priceVars, extractVars >>

\* The variables of a Jumia instance and its run, pc apart.
crawlerVars == << inputVars, categories, products, cat_idx, listVars, reqVars,
                 session_open, fileVars, today, cancelled, closes, invoked,
                 home_fetch >>

vars == << pc, crawlerVars, auxVars >>

NoSoup == LastPg(0)

SaveCall(target, data, outcome) ==
    [target |-> target, len |-> Len(data), outcome |-> outcome]

Days == 1..NumDays

\* The attributes of a Jumia instance as Base.__init__ sets them, and the
\* locals of its methods before any call; open: self.session exists.
InstanceFields(open) ==
    /\ categories = << >>
    /\ products = << >>
    /\ cat_idx = 1
    /\ current_url = NoneUrl
    /\ page_num = 1
    /\ initial_count = 0
    /\ soup = NoSoup
    /\ frag_idx = 1
    /\ req_url = NoneUrl
    /\ max_retries = DefaultMaxRetries
    /\ attempt = 0
    /\ ret_pc = "none"
    /\ response = "none"
    /\ session_open = open
    /\ raw = [d \in Days |-> NoFile]
    /\ partial_json = NoFile
    /\ partial_csv = NoFile
    /\ today = 1
    /\ cancelled = FALSE
    /\ req_log = << >>
    /\ calls = 0
    /\ closes = 0
    /\ fetches = 0
    /\ follows = 0
    /\ exit_reason = "none"
    /\ last_saves = << >>
    /\ invoked = << >>
    /\ home_fetch = "none"

\* The state of a fresh Jumia() instance (Base.__init__), before run().
InitInstance == InstanceFields(TRUE)

\* No scraper has been constructed yet.
NoInstance == InstanceFields(FALSE)

\* PostgresLoader(): connected, the products table created and empty.
InitLoader ==
    /\ table = << >>
    /\ data_tuples = << >>
    /\ load_result = "none"
    /\ loads = 0

\* ScraperOrchestrator.run has not been called.
InitOrchestrator ==
    /\ website = "jumia"
    /\ orch_error = "none"
    /\ built = 0
    /\ data_dir = FALSE

\* handle_url is not being called.
NoUrlCall ==
    /\ url_arg = PyNone
    /\ base_arg = PyNone
    /\ url_result = PyNone

\* The cleaner has not run, on the raw directory(ies) given.
InitCleaner(dirs) ==
    /\ raw_dir \in dirs
    /\ file_idx = 1
    /\ processed = << >>
    /\ clean_errors = << >>
    /\ run_result = "none"

\* data/raw/<website> does not exist.
MissingDir == [exists |-> FALSE, files |-> << >>]

NoCleanRun == InitCleaner({MissingDir})

\* The cells _clean_price is applied to: None, NaN (an empty CSV cell) or a
\* text, kept as the sequence of its characters.
NoneCell == [kind |-> "None", text |-> << >>]

NaNCell == [kind |-> "nan", text |-> << >>]

TextCell(t) == [kind |-> "str", text |-> t]

\* What _clean_price returns: None, or a float.  A float is kept as the
\* decimal number mant / 10^scale its text denotes, with no trailing zero in
\* the fraction: float() rounds a decimal text to the nearest double, so two
\* texts of this length give equal floats exactly when they give the same
\* record (1229.00 and 1229.0 are both mant 1229, scale 0).
NoPrice == [kind |-> "None", mant |-> 0, scale |-> 0]

RECURSIVE Float(_, _)
Float(mant, scale) ==
    IF scale > 0 /\ mant % 10 = 0 THEN Float(mant \div 10, scale - 1)
    ELSE [kind |-> "float", mant |-> mant, scale |-> scale]

\* _clean_price has not returned.
PendingPrice == [kind |-> "pending", mant |-> 0, scale |-> 0]

\* _clean_price is not being called.
NoPriceCall ==
    /\ price_str = NoneCell
    /\ price_result = PendingPrice

\* _extract_product_data has not returned.
NoRecord == [pending |-> TRUE]

\* _extract_product_data is not being called.
NoExtractCall ==
    /\ fragment = {}
    /\ record = NoRecord

\* The parts of the pipeline a specification does not run.
AuxIdle ==
    /\ InitLoader
    /\ InitOrchestrator
    /\ NoUrlCall
    /\ NoCleanRun
    /\ NoPriceCall
    /\ NoExtractCall

Init ==
    /\ pc = "run"
    /\ site \in Sites
    /\ do_categories \in BOOLEAN
    /\ do_products \in BOOLEAN
    /\ max_products \in Caps
    /\ InitInstance
    /\ AuxIdle

(***************************************************************************)
(* Base._make_request                                                      *)
(***************************************************************************)
\* What one session.get + raise_for_status can do: a response with a status
\* code, or an exception of requests.
HttpStatuses == {200, 404, 500}

GetOutcomes ==
    [exc : {"none"}, status : HttpStatuses]
    \cup [exc : {"ConnectionError", "Timeout", "RequestException"}, status : {0}]

Success(o) == o.exc = "none" /\ o.status < 400

\* Mutant: a 404 is handled like any other HTTP error.
TerminalNever(o) == FALSE

\* except HTTPError: if e.response.status_code == 404: return None
Terminal(o) == o.exc = "none" /\ o.status = NotFound

\* Mutant: the same wait after every failed attempt.
BackoffWaitFlat(a) == BackoffUnit

\* if attempt < max_retries - 1
RetriesRemain(a, m) == a < m - 1

\* wait_time = (attempt + 1) * 2
BackoffWait(a) == (a + 1) * BackoffUnit

\* What the server did, as the fetcher's contract classifies it: a success, a
\* 404, or a transient failure (another error status, a connection error, a
\* timeout, another exception of requests).
Class(o) ==
    IF o.exc /= "none" THEN "transient"
    ELSE IF o.status = 404 THEN "not_found"
    ELSE IF o.status >= 400 THEN "transient"
    ELSE "success"

GetEvent(o) == [op |-> "get", what |-> Class(o), n |-> 0]

SleepEvent(what, secs) == [op |-> "sleep", what |-> what, n |-> secs]

\* Mutant: the politeness sleep follows every GET.
ThrottledAlways(o) == TRUE

\* time.sleep(delay) stands after raise_for_status, inside the try: it is
\* reached by the attempts that raise nothing.
Throttled(o) == Success(o)

\* What one attempt adds to the log: the GET, and the politeness sleep.
Attempted(o) ==
    << GetEvent(o) >>
    \o (IF Throttled(o) THEN << SleepEvent("polite", DefaultDelay) >> ELSE << >>)

\* Mutant: the attempt counter is an attribute of the instance that a new
\* call does not reset.
CallMakeRequestResumed(url, m, ret) ==
    /\ req_url' = url
    /\ max_retries' = m
    /\ attempt' = attempt
    /\ ret_pc' = ret
    /\ req_log' = << >>
    /\ calls' = calls + 1
    /\ response' = IF m > 0 THEN "none" ELSE "null"
    /\ pc' = IF m > 0 THEN "request" ELSE ret

\* Entering _make_request(url, max_retries): `for attempt in range(max_retries)`
\* runs no iteration, and the call returns None, when max_retries is 0.
CallMakeRequest(url, m, ret) ==
    /\ req_url' = url
    /\ max_retries' = m
    /\ attempt' = 0
    /\ ret_pc' = ret
    /\ req_log' = << >>
    /\ calls' = calls + 1
    /\ response' = IF m > 0 THEN "none" ELSE "null"
    /\ pc' = IF m > 0 THEN "request" ELSE ret

\* One iteration of the retry loop: the GET, and what follows it.
MakeRequest ==
    /\ pc = "request"
    /\ \E o \in GetOutcomes :
        IF Success(o)
        THEN /\ req_log' = req_log \o Attempted(o)
             /\ response' = "ok"
             /\ pc' = ret_pc
             /\ UNCHANGED attempt
        ELSE IF Terminal(o)
        THEN /\ req_log' = req_log \o Attempted(o)
             /\ response' = "null"
             /\ pc' = ret_pc
             /\ UNCHANGED attempt
        ELSE IF RetriesRemain(attempt, max_retries)
        THEN /\ req_log' = req_log \o Attempted(o)
                              \o << SleepEvent("backoff", BackoffWait(attempt)) >>
             /\ attempt' = attempt + 1
             /\ UNCHANGED << response, pc >>
        ELSE /\ req_log' = req_log \o Attempted(o)
             /\ response' = "null"
             /\ pc' = ret_pc
             /\ UNCHANGED attempt
    /\ UNCHANGED << auxVars, inputVars, invoked, home_fetch, categories, products, cat_idx, listVars, req_url,
                    max_retries, ret_pc, calls, session_open, fileVars, today,
                    cancelled, closes >>

(***************************************************************************)
(* SpecFetch: _make_request called MaxCalls times in a row on a fresh      *)
(* instance, each time with a max_retries argument drawn from              *)
(* 0..MaxRetriesBound.                                                     *)
(***************************************************************************)
InitFetch ==
    /\ pc = "returned"
    /\ site = SiteNoLinks
    /\ do_categories = FALSE
    /\ do_products = FALSE
    /\ max_products = None
    /\ InitInstance
    /\ AuxIdle

FetchCall ==
    /\ pc = "returned"
    /\ calls < MaxCalls
    /\ \E m \in 0..MaxRetriesBound : CallMakeRequest(base_url, m, "returned")
    /\ UNCHANGED << auxVars, inputVars, invoked, home_fetch, categories, products, cat_idx, listVars,
                    session_open, fileVars, today, cancelled, closes >>

NextFetch == FetchCall \/ MakeRequest

SpecFetch == InitFetch /\ [][NextFetch]_vars

(***************************************************************************)
(* Jumia.scrape_categories                                                 *)
(***************************************************************************)
\* href.startswith('http') and not href.startswith(self.base_url)
OffSite(href) ==
    /\ \/ StartsWith(Spelling(href).text, << "http://" >>)
       \/ StartsWith(Spelling(href).text, << "https://" >>)
    /\ ~StartsWith(Spelling(href).text, JumiaBaseUrl)

\* The filter of the loop over category_links, for one link and the hrefs
\* seen so far.
KeepLink(link, seen) ==
    /\ link.href.kind \notin {"none", "empty"}
    /\ link.textlen > 0
    /\ link.href.kind /= "frag"
    /\ link.textlen > 2
    /\ link.href \notin seen
    /\ handle_url(link.href) /= NoneUrl
    /\ ~OffSite(link.href)

RECURSIVE CategoryLoop(_, _, _)
\* for link in category_links: ... self.categories.append(...); seen.add(href)
\* A category is kept as its name (the length of the link's text), the URL
\* its 'url' addresses and, for the properties, the href it was built from.
CategoryLoop(links, seen, acc) ==
    IF links = << >> THEN acc
    ELSE IF KeepLink(Head(links), seen)
         THEN CategoryLoop(Tail(links), seen \cup {Head(links).href},
                           Append(acc, [name |-> Head(links).textlen,
                                        url |-> handle_url(Head(links).href),
                                        href |-> Head(links).href]))
         ELSE CategoryLoop(Tail(links), seen, acc)

\* run(), after scrape_categories: scrape_all_categories is entered when
\* products are wanted and there are categories; else the try block ends.
AfterCategories(cats) ==
    IF do_products /\ cats /= << >> THEN "all_categories" ELSE "completed"

\* Mutant: the `if not response: return` check is lost and the markup of a
\* stale copy of the home page is searched when the fetch gave nothing.
HomePageSearchedAnyway(resp, parse_error) == ~parse_error

\* response = self._make_request(self.base_url); if not response: return;
\* soup = BeautifulSoup(...); category_links = soup.find_all(...): the loop
\* over the links is reached with a response that parses.
HomePageSearched(resp, parse_error) == resp = "ok" /\ ~parse_error

\* scrape_categories once the home page request has returned.  The call
\* self._save_csv(self.categories, ..., is_category=True) raises TypeError
\* (Base._save_csv takes no such argument), which the outer except logs: the
\* categories stay in self.categories and no category file is written.
ScrapeCategories ==
    /\ pc = "categories"
    /\ \E parse_error \in BOOLEAN :
        /\ parse_error => response = "ok"
        /\ categories' = IF HomePageSearched(response, parse_error)
                         THEN CategoryLoop(site.links, {}, categories)
                         ELSE categories
    /\ home_fetch' = response
    /\ cat_idx' = 1
    /\ pc' = AfterCategories(categories')
    /\ response' = "none"
    /\ req_log' = << >>
    /\ UNCHANGED << auxVars, inputVars, invoked, products, listVars, req_url, max_retries, attempt,
                    ret_pc, calls, session_open, fileVars, today, cancelled, closes >>

\* run(): the start of the try block.
Run ==
    /\ pc = "run"
    /\ IF do_categories
       THEN CallMakeRequest(base_url, DefaultMaxRetries, "categories")
       ELSE /\ pc' = AfterCategories(categories)
            /\ UNCHANGED reqVars
    /\ UNCHANGED << auxVars, inputVars, invoked, home_fetch, categories, products, cat_idx, listVars,
                    session_open, fileVars, today, cancelled, closes >>

(***************************************************************************)
(* Jumia.scrape_all_categories and Jumia.scrape_product_list               *)
(***************************************************************************)
\* Mutant: the cap is never looked at.
CapReachedNever(mp, len, ic) == FALSE

\* max_products and (len(self.products) - initial_count) >= max_products
CapReached(mp, len, ic) == Truthy(mp) /\ (len - ic) >= mp

\* Mutant: the page limit of the superseded scraper (max_pages) is still
\* applied on top of the product limit.
LoopCapCheckPageLimit(mp, len, ic) == CapReached(mp, len, ic) \/ page_num > 2

\* Mutant: no check inside the for loop.
FragmentCapCheckMissing(mp, len, ic) == FALSE

\* Mutant: no check after the for loop.
PageEndCapCheckMissing(mp, len, ic) == FALSE

\* Mutant: a page without listings does not stop the crawl.
NoProductsIgnored(page) == FALSE

\* Mutant: the final save is left to the incremental saves.
FinalSaveDueNever(data) == FALSE

\* "Check if we've reached the product limit": the check at the top of the
\* while loop, before the request.
LoopCapCheck(mp, len, ic) == CapReached(mp, len, ic)

\* "Check product limit before adding each product": the check of the for loop.
FragmentCapCheck(mp, len, ic) == CapReached(mp, len, ic)

\* "Check if we've reached the limit": the check after the for loop.
PageEndCapCheck(mp, len, ic) == CapReached(mp, len, ic)

\* if not products: the page has no listing fragment.
NoProducts(page) == page.n = 0

\* if self.products: the final save is made.
FinalSaveDue(data) == data /= << >>

\* Mutant: no incremental save.
FlushDueNever(len) == FALSE

\* if len(self.products) % 100 == 0
FlushDue(len) == len % FlushEvery = 0

\* The page the server serves for a URL: the site's page, or a page without
\* listings for a URL the site does not know.
PageAt(url) ==
    IF url.origin = "site" /\ url.path \in DOMAIN site.pages
    THEN site.pages[url.path] ELSE NoSoup

\* Mutant: no try block around the call, so that an exception of
\* scrape_product_list ends the for loop and the try block of run().
CategoryFailureEscapes == "completed"

\* except Exception as e: logger.error(...); continue: the for loop goes on
\* with the next category.
CategoryFailure == "all_categories"

InvokedCall(url, end) == [url |-> url, end |-> end]

\* The for loop of scrape_all_categories: the next category's
\* scrape_product_list call starts, or the loop is over.  The call can raise
\* outside the try block of its while loop (an unexpected Exception raised
\* before the loop is entered); the except clause of the for loop catches it.
ScrapeAllCategories ==
    /\ pc = "all_categories"
    /\ IF cat_idx <= Len(categories)
       THEN \E raised \in BOOLEAN :
              IF raised
              THEN /\ invoked' = Append(invoked, InvokedCall(categories[cat_idx].url, "raised"))
                   /\ cat_idx' = cat_idx + 1
                   /\ pc' = CategoryFailure
                   /\ UNCHANGED listVars
              ELSE /\ invoked' = Append(invoked, InvokedCall(categories[cat_idx].url, "entered"))
                   /\ current_url' = categories[cat_idx].url
                   /\ page_num' = 1
                   /\ initial_count' = Len(products)
                   /\ fetches' = 0
                   /\ follows' = 0
                   /\ exit_reason' = "none"
                   /\ pc' = "loop"
                   /\ UNCHANGED << cat_idx, soup, frag_idx >>
       ELSE /\ pc' = "completed"
            /\ UNCHANGED << cat_idx, listVars, invoked >>
    /\ UNCHANGED << auxVars, inputVars, home_fetch, categories, products, reqVars,
                    session_open, fileVars, today, cancelled, closes >>

\* Top of `while True`: the cap check, then the request of the current page.
LoopHead ==
    /\ pc = "loop"
    /\ IF LoopCapCheck(max_products, Len(products), initial_count)
       THEN /\ exit_reason' = "cap"
            /\ pc' = "list_exit"
            /\ UNCHANGED << reqVars, fetches >>
       ELSE /\ fetches < MaxFetches
            /\ fetches' = fetches + 1
            /\ CallMakeRequest(current_url, DefaultMaxRetries, "page")
            /\ UNCHANGED exit_reason
    /\ UNCHANGED << auxVars, inputVars, invoked, home_fetch, categories, products, cat_idx, current_url, page_num,
                    initial_count, soup, frag_idx, follows, session_open, fileVars,
                    today, cancelled, closes >>

\* The request has returned: no response, an exception while the page is
\* parsed and searched, a page without listings, or the for loop starts.
PageResponse ==
    /\ pc = "page"
    /\ \E parse_error \in BOOLEAN :
        /\ parse_error => response = "ok"
        /\ IF response /= "ok"
           THEN /\ exit_reason' = "no_response"
                /\ pc' = "list_exit"
                /\ UNCHANGED << soup, frag_idx >>
           ELSE IF parse_error
           THEN /\ exit_reason' = "exception"
                /\ pc' = "list_exit"
                /\ UNCHANGED << soup, frag_idx >>
           ELSE /\ soup' = PageAt(current_url)
                /\ frag_idx' = 1
                /\ IF NoProducts(soup')
                   THEN exit_reason' = "empty" /\ pc' = "list_exit"
                   ELSE /\ exit_reason' = exit_reason
                        /\ pc' = IF soup'.n >= 1 THEN "fragment" ELSE "page_end"
    /\ response' = "none"
    /\ req_log' = << >>
    /\ UNCHANGED << auxVars, inputVars, invoked, home_fetch, categories, products, cat_idx, current_url, page_num,
                    initial_count, fetches, follows, req_url, max_retries, attempt,
                    ret_pc, calls, session_open, fileVars, today, cancelled, closes >>

\* filename = f"jumia_products_{datetime.now().strftime('%Y%m%d')}.csv"
\* self._save_csv(self.products, filename), on day d with write outcome o.
SaveRaw(data, d, o) ==
    /\ today' = d
    /\ raw' = [raw EXCEPT ![d] = _save_csv(@, data, o)]
    /\ last_saves' = << SaveCall("raw", data, o) >>
    /\ UNCHANGED << partial_json, partial_csv >>

\* Mutant: the new record is inserted at the front of the buffer.
AppendedFront(buf, data) == data \o buf

\* if product_data: self.products.append(product_data)
Appended(buf, data) == buf \o data

\* One iteration of `for product in products`: the cap check, the extraction,
\* the append and the incremental save.
Fragment ==
    /\ pc = "fragment"
    /\ IF FragmentCapCheck(max_products, Len(products), initial_count)
       THEN /\ pc' = "page_end"
            /\ UNCHANGED << products, frag_idx, fileVars, today >>
       ELSE /\ products' = Appended(products,
                    _extract_product_data(soup, current_url.path, frag_idx))
            /\ frag_idx' = frag_idx + 1
            /\ pc' = IF frag_idx < soup.n THEN "fragment" ELSE "page_end"
            /\ IF Len(products') > Len(products) /\ FlushDue(Len(products'))
               THEN \E o \in WriteOutcomes, d \in today..NumDays :
                        SaveRaw(products', d, o)
               ELSE UNCHANGED << fileVars, today >>
    /\ UNCHANGED << auxVars, inputVars, invoked, home_fetch, categories, cat_idx, current_url, page_num,
                    initial_count, soup, fetches, follows, exit_reason, reqVars,
                    session_open, cancelled, closes >>

\* After the for loop: the cap check, then the next-page link.
PageEnd ==
    /\ pc = "page_end"
    /\ \E lookup_error \in BOOLEAN :
        IF PageEndCapCheck(max_products, Len(products), initial_count)
        THEN /\ ~lookup_error
             /\ exit_reason' = "cap"
             /\ pc' = "list_exit"
             /\ UNCHANGED << current_url, page_num, follows >>
        ELSE IF lookup_error
        THEN /\ exit_reason' = "exception"
             /\ pc' = "list_exit"
             /\ UNCHANGED << current_url, page_num, follows >>
        ELSE IF ~soup.button
        THEN /\ exit_reason' = "no_next"
             /\ pc' = "list_exit"
             /\ UNCHANGED << current_url, page_num, follows >>
        ELSE IF soup.next.kind \in {"none", "empty"}
        THEN /\ exit_reason' = "no_href"
             /\ pc' = "list_exit"
             /\ UNCHANGED << current_url, page_num, follows >>
        ELSE /\ current_url' = handle_url(soup.next)
             /\ page_num' = page_num + 1
             /\ follows' = follows + 1
             /\ pc' = "loop"
             /\ UNCHANGED exit_reason
    /\ UNCHANGED << auxVars, inputVars, invoked, home_fetch, categories, products, cat_idx, initial_count, soup,
                    frag_idx, fetches, reqVars, session_open, fileVars, today,
                    cancelled, closes >>

\* After the while loop: the final save, and the return to the for loop of
\* scrape_all_categories.
ListExit ==
    /\ pc = "list_exit"
    /\ IF FinalSaveDue(products)
       THEN \E o \in WriteOutcomes, d \in today..NumDays :
                SaveRaw(products, d, o)
       ELSE UNCHANGED << fileVars, today >>
    /\ cat_idx' = cat_idx + 1
    /\ pc' = "all_categories"
    /\ UNCHANGED << auxVars, inputVars, invoked, home_fetch, categories, products, listVars, reqVars,
                    session_open, cancelled, closes >>

(***************************************************************************)
(* Jumia.run: the ends of the try block                                    *)
(***************************************************************************)
\* Mutant: self.close() at the end of the try block, not in a finally clause.
closeUnlessCancelled ==
    IF cancelled
    THEN UNCHANGED << session_open, closes >>
    ELSE session_open' = FALSE /\ closes' = closes + 1

\* Base.close()
close ==
    /\ session_open' = FALSE
    /\ closes' = closes + 1

\* The try block has ended normally: finally: self.close().
Complete ==
    /\ pc = "completed"
    /\ close
    /\ pc' = "done"
    /\ UNCHANGED << auxVars, inputVars, invoked, home_fetch, categories, products, cat_idx, listVars, reqVars,
                    fileVars, today, cancelled >>

\* The places of the try block where a KeyboardInterrupt can arrive.  No
\* handler below run() catches it (they catch Exception and the exceptions of
\* requests), so it reaches run()'s except clause from any of them.
Interruptible ==
    {"request", "categories", "all_categories", "loop", "page", "fragment",
     "page_end", "list_exit"}

\* Mutant: a bare `except:` around the page processing catches the
\* KeyboardInterrupt like any exception of the page.
InterruptCaughtBelow ==
    /\ pc \in Interruptible
    /\ ~cancelled
    /\ cancelled' = TRUE
    /\ pc' = IF pc \in {"loop", "page", "fragment", "page_end"}
             THEN "list_exit" ELSE "interrupted"
    /\ UNCHANGED << auxVars, inputVars, invoked, home_fetch, categories, products, cat_idx, listVars, reqVars,
                    session_open, fileVars, today, closes >>

Interrupt ==
    /\ pc \in Interruptible
    /\ ~cancelled
    /\ cancelled' = TRUE
    /\ pc' = "interrupted"
    /\ UNCHANGED << auxVars, inputVars, invoked, home_fetch, categories, products, cat_idx, listVars, reqVars,
                    session_open, fileVars, today, closes >>

\* except KeyboardInterrupt: the partial exports; finally: self.close().
HandleInterrupt ==
    /\ pc = "interrupted"
    /\ IF products /= << >>
       THEN \E oj \in WriteOutcomes, oc \in WriteOutcomes :
                /\ partial_json' = _save_json(partial_json, products, oj)
                /\ partial_csv' = _save_csv(partial_csv, products, oc)
                /\ last_saves' = << SaveCall("partial_json", products, oj),
                                    SaveCall("partial_csv", products, oc) >>
                /\ UNCHANGED raw
       ELSE UNCHANGED fileVars
    /\ close
    /\ pc' = "done"
    /\ UNCHANGED << auxVars, inputVars, invoked, home_fetch, categories, products, cat_idx, listVars, reqVars,
                    today, cancelled >>

Next ==
    \/ Run
    \/ MakeRequest
    \/ ScrapeCategories
    \/ ScrapeAllCategories
    \/ LoopHead
    \/ PageResponse
    \/ Fragment
    \/ PageEnd
    \/ ListExit
    \/ Complete
    \/ Interrupt
    \/ HandleInterrupt

Spec == Init /\ [][Next]_vars

(***************************************************************************)
(* SpecList: run() on sites whose next-page links form a cycle over pages  *)
(* that each give at least one record, with no cap or a positive cap below *)
(* MaxFetches, and without KeyboardInterrupt.  Every call in progress goes *)
(* on: the interpreter runs the next statement, and each request made      *)
(* returns (session.get has a timeout).                                    *)
(***************************************************************************)
\* One category whose only page links to itself and holds one listing.
SiteSelfLoop ==
    [links |-> << Link("rooted", 11, 9) >>,
     pages |-> (11 :> NextPg(1, 11))]

CyclicSites == {SiteCycle, SiteSelfLoop}

\* The max_products arguments tried: unlimited, and the positive caps that
\* the crawl can reach within MaxFetches page fetches.
ListCaps == {None} \cup 1..(MaxFetches - 1)

InitList ==
    /\ pc = "run"
    /\ site \in CyclicSites
    /\ do_categories = TRUE
    /\ do_products = TRUE
    /\ max_products \in ListCaps
    /\ InitInstance
    /\ AuxIdle

NextList ==
    \/ Run
    \/ MakeRequest
    \/ ScrapeCategories
    \/ ScrapeAllCategories
    \/ LoopHead
    \/ PageResponse
    \/ Fragment
    \/ PageEnd
    \/ ListExit
    \/ Complete

SpecList == InitList /\ [][NextList]_vars /\ WF_vars(NextList)

(***************************************************************************)
(* SpecSteady: run() in an environment where every write of an export      *)
(* succeeds and the calendar day does not change.                          *)
(***************************************************************************)
\* A category of one listing, then a category of one page of 198 listings:
\* the buffer passes 100 records inside the second category and ends at 199.
SiteLongPage ==
    [links |-> << Link("rooted", 11, 5), Link("rooted", 21, 7) >>,
     pages |-> (11 :> LastPg(1)) @@ (21 :> LastPg(198))]

SteadySites == {SiteTwoBig, SiteLongPage, SiteCycle}

InitSteady ==
    /\ pc = "run"
    /\ site \in SteadySites
    /\ do_categories \in BOOLEAN
    /\ do_products \in BOOLEAN
    /\ max_products \in Caps
    /\ InitInstance
    /\ AuxIdle

\* The step's writes succeeded (the saves of a step stay in last_saves until
\* the next step that saves) and the day is the same.
SteadyStep ==
    /\ today' = today
    /\ \A i \in 1..Len(last_saves') : last_saves'[i].outcome = "ok"

NextSteady == Next /\ SteadyStep

SpecSteady == InitSteady /\ [][NextSteady]_vars

(***************************************************************************)
(* ScraperOrchestrator.run (SpecOrch): run(website, scrape_categories,     *)
(* scrape_products, max_products) with the site identifier drawn from      *)
(* registered and unregistered names in several spellings; for "jumia" the *)
(* scraper's run() follows, as in Spec.                                    *)
(***************************************************************************)
\* ScraperOrchestrator.SCRAPERS: the registered identifiers.
SCRAPERS ==
    {"jumia", "marjane", "avito", "electroplanet", "bikhir", "decathlon", "hmizate"}

\* Base.sites_available
sites_available ==
    {"jumia", "marjane", "electroplanet", "bikhir", "decathlon", "hmizate"}

\* The identifiers tried.
SiteIdentifiers ==
    {"jumia", "JUMIA", "Jumia", "avito", "hmizate", "Electroplanet",
     "amazon", "AMAZON", "jumia.ma", ""}

\* str.lower()
lower(w) ==
    CASE w = "JUMIA" -> "jumia"
      [] w = "Jumia" -> "jumia"
      [] w = "Electroplanet" -> "electroplanet"
      [] w = "AMAZON" -> "amazon"
      [] OTHER -> w

\* Mutant: the registry is looked up without the membership check.
SupportedUnchecked(w) == TRUE

\* website.lower() in cls.SCRAPERS
Supported(w) == lower(w) \in SCRAPERS

InitOrch ==
    /\ pc = "orchestrator"
    /\ site = SiteThreePages
    /\ do_categories \in BOOLEAN
    /\ do_products \in BOOLEAN
    /\ max_products \in {None, 1}
    /\ NoInstance
    /\ InitLoader
    /\ NoUrlCall
    /\ NoCleanRun
    /\ NoPriceCall
    /\ NoExtractCall
    /\ website \in SiteIdentifiers
    /\ orch_error = "none"
    /\ built = 0
    /\ data_dir = FALSE

\* ScraperOrchestrator.run up to its scraper.run(...) call: the ValueError
\* for an unsupported website; else scraper_class(), in which Base.__init__
\* raises ValueError for a site_name outside sites_available and otherwise
\* makes the directories and the session; then run() of the scraper, which
\* raises NotImplementedError for the placeholder scrapers.
OrchestratorRun ==
    /\ pc = "orchestrator"
    /\ IF ~Supported(website)
       THEN /\ orch_error' = "ValueError"
            /\ pc' = "raised"
            /\ UNCHANGED << built, data_dir, session_open >>
       ELSE IF lower(website) \notin SCRAPERS
       THEN /\ orch_error' = "KeyError"
            /\ pc' = "raised"
            /\ UNCHANGED << built, data_dir, session_open >>
       ELSE IF lower(website) \notin sites_available
       THEN /\ orch_error' = "ValueError"
            /\ pc' = "raised"
            /\ built' = built + 1
            /\ UNCHANGED << data_dir, session_open >>
       ELSE /\ built' = built + 1
            /\ data_dir' = TRUE
            /\ session_open' = TRUE
            /\ IF lower(website) = "jumia"
               THEN pc' = "run" /\ UNCHANGED orch_error
               ELSE pc' = "raised" /\ orch_error' = "NotImplementedError"
    /\ UNCHANGED << inputVars, categories, products, cat_idx, listVars, reqVars,
                    fileVars, today, cancelled, closes, invoked, home_fetch,
                    loadVars, urlVars, cleanVars, priceVars, extractVars, website >>

NextOrch == OrchestratorRun \/ Next

SpecOrch == InitOrch /\ [][NextOrch]_vars

(***************************************************************************)
(* utils.handle_url (SpecUrl): one call, with the url drawn from None and  *)
(* the strings of at most MaxUrlLen pieces, and the base_url from None,    *)
(* the empty string and the site's base URL without and with a trailing    *)
(* slash.                                                                  *)
(***************************************************************************)
UrlPieces == {"https://", "http://", "/", "#", "www.jumia.ma", "product"}

UrlTexts == UNION {[1..n -> UrlPieces] : n \in 0..MaxUrlLen}

UrlArgs == {PyNone} \cup {Str(t) : t \in UrlTexts}

BaseArgs == {PyNone, Str(<< >>), Str(JumiaBaseUrl), Str(JumiaBaseUrl \o << "/" >>)}

InitUrl ==
    /\ pc = "handle_url"
    /\ site = SiteNoLinks
    /\ do_categories = FALSE
    /\ do_products = FALSE
    /\ max_products = None
    /\ InitInstance
    /\ InitLoader
    /\ InitOrchestrator
    /\ NoCleanRun
    /\ NoPriceCall
    /\ NoExtractCall
    /\ url_arg \in UrlArgs
    /\ base_arg \in BaseArgs
    /\ url_result = PyNone

\* The call handle_url(url, base_url).
HandleUrlCall ==
    /\ pc = "handle_url"
    /\ url_result' = handle_url_str(url_arg, base_arg)
    /\ pc' = "handled"
    /\ UNCHANGED << crawlerVars, loadVars, orchVars, cleanVars, priceVars, extractVars, url_arg, base_arg >>

NextUrl == HandleUrlCall

SpecUrl == InitUrl /\ [][NextUrl]_vars

(***************************************************************************)
(* CleanData.run with CleanDataJumia.clean (SpecClean): one run over a raw *)
(* directory of at most MaxFiles CSV files.  Of a file only the scraped_at *)
(* column is kept: absent, or one value per row.                           *)
(***************************************************************************)
\* A scraped_at cell of a raw file: an ISO timestamp (datetime.isoformat()
\* of instant n), a text that is no timestamp, or an empty cell (NaN).
IsoText(n) == [kind |-> "iso", instant |-> n]

MalformedText == [kind |-> "malformed", instant |-> 0]

NaN == [kind |-> "nan", instant |-> 0]

ScrapedAtCells == {IsoText(1), MalformedText, NaN}

\* The values of a parsed scraped_at column.
Timestamp(n) == [kind |-> "timestamp", instant |-> n]

NaT == [kind |-> "NaT", instant |-> 0]

\* The raw files tried: without a scraped_at column, or with one of one or
\* two rows.
RawFiles ==
    {[has_scraped_at |-> FALSE, scraped_at |-> << >>]}
    \cup {[has_scraped_at |-> TRUE, scraped_at |-> col] :
             col \in UNION {[1..n -> ScrapedAtCells] : n \in 1..2}}

RawDirs ==
    {MissingDir}
    \cup {[exists |-> TRUE, files |-> fs] :
             fs \in UNION {[1..n -> RawFiles] : n \in 0..MaxFiles}}

\* Mutant: pd.to_datetime(..., errors='coerce').
to_datetime_coerce(col) ==
    [ok |-> TRUE,
     value |-> [i \in 1..Len(col) |->
                  IF col[i].kind = "iso" THEN Timestamp(col[i].instant) ELSE NaT]]

\* pd.to_datetime(col): raises on a text that is no timestamp; an empty cell
\* becomes NaT.
to_datetime(col) ==
    IF \E i \in 1..Len(col) : col[i].kind = "malformed"
    THEN [ok |-> FALSE, value |-> << >>]
    ELSE [ok |-> TRUE,
          value |-> [i \in 1..Len(col) |->
                       IF col[i].kind = "iso" THEN Timestamp(col[i].instant) ELSE NaT]]

\* CleanDataJumia.clean(df), for the scraped_at column: the cleaned frame,
\* or the exception of pd.to_datetime.
clean(df) ==
    IF df.has_scraped_at
    THEN LET parsed == to_datetime(df.scraped_at)
         IN  [ok |-> parsed.ok,
              df |-> [has_scraped_at |-> TRUE, scraped_at |-> parsed.value]]
    ELSE [ok |-> TRUE, df |-> df]

InitClean ==
    /\ pc = "clean_run"
    /\ site = SiteNoLinks
    /\ do_categories = FALSE
    /\ do_products = FALSE
    /\ max_products = None
    /\ InitInstance
    /\ InitLoader
    /\ InitOrchestrator
    /\ NoUrlCall
    /\ NoPriceCall
    /\ NoExtractCall
    /\ InitCleaner(RawDirs)

\* run(), up to its for loop: False when the raw directory is missing or
\* holds no CSV file.
CleanRun ==
    /\ pc = "clean_run"
    /\ IF ~raw_dir.exists \/ raw_dir.files = << >>
       THEN run_result' = "False" /\ pc' = "clean_done"
       ELSE run_result' = run_result /\ pc' = "clean_file"
    /\ UNCHANGED << crawlerVars, loadVars, orchVars, urlVars, priceVars, extractVars, raw_dir, file_idx,
                    processed, clean_errors >>

\* One iteration of `for file in files`: read_csv, clean and save; an
\* exception of read_csv or clean is logged and the loop continues; save
\* logs and swallows its own exception.  After the last file run returns
\* True.
CleanFile ==
    /\ pc = "clean_file"
    /\ file_idx <= Len(raw_dir.files)
    /\ \E read_error \in BOOLEAN, save_error \in BOOLEAN :
         LET cleaned == clean(raw_dir.files[file_idx])
         IN  IF read_error
             THEN /\ clean_errors' = Append(clean_errors, [file |-> file_idx, at |-> "read_csv"])
                  /\ UNCHANGED processed
             ELSE IF ~cleaned.ok
             THEN /\ clean_errors' = Append(clean_errors, [file |-> file_idx, at |-> "clean"])
                  /\ UNCHANGED processed
             ELSE IF save_error
             THEN UNCHANGED << clean_errors, processed >>
             ELSE /\ processed' = (file_idx :> cleaned.df) @@ processed
                  /\ UNCHANGED clean_errors
    /\ file_idx' = file_idx + 1
    /\ IF file_idx = Len(raw_dir.files)
       THEN run_result' = "True" /\ pc' = "clean_done"
       ELSE UNCHANGED << run_result, pc >>
    /\ UNCHANGED << crawlerVars, loadVars, orchVars, urlVars, priceVars, extractVars, raw_dir >>

NextClean == CleanRun \/ CleanFile

SpecClean == InitClean /\ [][NextClean]_vars

(***************************************************************************)
(* CleanData._clean_price (SpecPrice): one call on one cell, as            *)
(* CleanDataJumia.clean applies it to each cell of current_price and       *)
(* old_price.                                                              *)
(***************************************************************************)
\* The characters \d matches, among those tried.
Digits == {"0", "1", "2", "3", "4", "5", "6", "7", "8", "9"}

DigitValue(c) == CHOOSE n \in 0..9 : ToString(n) = c

\* pd.isna of a scalar cell
isna(cell) == cell.kind \in {"None", "nan"}

\* re.sub(r'[^\d.,]', '', s)
re_sub(s) == SelectSeq(s, LAMBDA c : c \in Digits \cup {".", ","})

\* c in s
In(c, s) == \E i \in 1..Len(s) : s[i] = c

\* str.find: the 0-based index of the first occurrence, or -1
find(s, c) ==
    IF In(c, s)
    THEN (CHOOSE i \in 1..Len(s) : s[i] = c /\ \A j \in 1..(i - 1) : s[j] /= c) - 1
    ELSE -1

\* str.replace(old, new), old one character and new a text
RECURSIVE replace(_, _, _)
replace(s, old, new) ==
    IF s = << >> THEN << >>
    ELSE (IF Head(s) = old THEN new ELSE << Head(s) >>)
         \o replace(Tail(s), old, new)

\* The number a text of digits denotes.
RECURSIVE DigitsValue(_)
DigitsValue(ds) ==
    IF ds = << >> THEN 0
    ELSE DigitsValue(SubSeq(ds, 1, Len(ds) - 1)) * 10 + DigitValue(ds[Len(ds)])

\* float(s) does not raise ValueError, for a text s of digits, '.' and ',':
\* digits with at most one '.', and at least one digit.
FloatParses(s) ==
    /\ \A i \in 1..Len(s) : s[i] \in Digits \cup {"."}
    /\ Cardinality({i \in 1..Len(s) : s[i] = "."}) <= 1
    /\ \E i \in 1..Len(s) : s[i] \in Digits

\* float(s), where it parses
float(s) ==
    LET dot == find(s, ".")
        scale == IF dot = -1 THEN 0 ELSE Len(s) - (dot + 1)
    IN Float(DigitsValue(SelectSeq(s, LAMBDA c : c \in Digits)), scale)

\* _clean_price with the comma always read as a thousands separator.
_clean_price_us(cell) ==
    IF isna(cell) THEN NoPrice
    ELSE LET s == replace(re_sub(cell.text), ",", << >>)
         IN IF s /= << >> /\ FloatParses(s) THEN float(s) ELSE NoPrice

\* CleanData._clean_price
_clean_price(cell) ==
    IF isna(cell) THEN NoPrice
    ELSE LET s0 == re_sub(cell.text)
             s1 == IF In(",", s0) /\ In(".", s0)
                   THEN IF find(s0, ",") < find(s0, ".")
                        THEN replace(s0, ",", << >>)
                        ELSE replace(replace(s0, ".", << >>), ",", << "." >>)
                   ELSE IF In(",", s0) THEN replace(s0, ",", << "." >>)
                   ELSE s0
         IN IF s0 = << >> THEN NoPrice
            ELSE IF FloatParses(s1) THEN float(s1)
            ELSE NoPrice

\* The characters of the enumerated texts.
PriceChars == {"1", "2", "0", ",", ".", " ", "D"}

\* The texts of the docstring, of the tests and of longer prices.
ExamplePrices ==
    { << "1", ",", "2", "2", "9", ".", "0", "0", " ", "D", "H" >>,
      << "1", ",", "2", "2", "9", ".", "0", "0", " ", "D", "h", "s" >>,
      << "2", "9", "9", ",", "9", "9", " ", "D", "H" >>,
      << "1", " ", "2", "4", "9", ".", "0", "0", " ", "D", "H" >>,
      << "3", "9", "9", " ", "D", "H" >>,
      << "1", ".", "2", "3", "4", ",", "5", "6" >>,
      << "1", ",", "2", "3", "4", ",", "5", "6", "7", ".", "8", "9" >>,
      << "1", ".", "2", "3", "4", ".", "5", "6", "7", ",", "8", "9" >>,
      << "1", ",", "2", "2", "9", ",", "0", "0", "0" >>,
      << "1", ",", "2", ".", "3", ",", "4" >> }

PriceTexts ==
    UNION {[1..n -> PriceChars] : n \in 0..MaxPriceLen} \cup ExamplePrices

PriceCells == {NoneCell, NaNCell} \cup {TextCell(t) : t \in PriceTexts}

InitPrice ==
    /\ pc = "clean_price"
    /\ site = SiteNoLinks
    /\ do_categories = FALSE
    /\ do_products = FALSE
    /\ max_products = None
    /\ InitInstance
    /\ InitLoader
    /\ InitOrchestrator
    /\ NoUrlCall
    /\ NoCleanRun
    /\ NoExtractCall
    /\ price_str \in PriceCells
    /\ price_result = PendingPrice

\* The call self._clean_price(price_str).
CleanPriceCall ==
    /\ pc = "clean_price"
    /\ price_result' = _clean_price(price_str)
    /\ pc' = "cleaned"
    /\ UNCHANGED << crawlerVars, loadVars, orchVars, urlVars, cleanVars,
                    extractVars, price_str >>

NextPrice == CleanPriceCall

SpecPrice == InitPrice /\ [][NextPrice]_vars

(***************************************************************************)
(* Jumia._extract_product_data (SpecExtract): one call on one listing      *)
(* fragment.  A fragment is the set of the sub-elements it holds, each by  *)
(* the selector that finds it; an element that is there carries its text   *)
(* and attributes.                                                         *)
(***************************************************************************)
\* The selectors of _extract_product_data.
SubElements ==
    {"h3.name", "div.prc", "div.old", "div.bdg._dsct", "div.stars._s",
     "div.rev", "a.core", "img.img", "div.bdg._mall"}

\* The keys whose value is read from a sub-element, with that sub-element.
Selector ==
    [name |-> "h3.name", current_price |-> "div.prc", old_price |-> "div.old",
     discount |-> "div.bdg._dsct", rating |-> "div.stars._s",
     review_count |-> "div.rev", url |-> "a.core", image_url |-> "img.img",
     brand |-> "a.core", sku |-> "a.core", category |-> "a.core",
     category_2 |-> "a.core", category_3 |-> "a.core"]

\* The keys set inside `if link_elem:` only.
CategoryKeys == {"category", "category_2", "category_3"}

\* The keys of the dict of a fragment that holds every sub-element.
RecordKeys == DOMAIN Selector \cup {"is_official_store", "scraped_at", "source"}

\* The text or attribute a key gets from its element: a value apart for
\* every key.
FieldText(k) ==
    CASE k = "name" -> 101 [] k = "current_price" -> 102
      [] k = "old_price" -> 103 [] k = "discount" -> 104
      [] k = "rating" -> 105 [] k = "review_count" -> 106
      [] k = "url" -> 107 [] k = "image_url" -> 108
      [] k = "brand" -> 109 [] k = "sku" -> 110
      [] k = "category" -> 111 [] k = "category_2" -> 112
      [] k = "category_3" -> 113

\* data['source'] = 'jumia.ma'
SourceSite == 100

\* Mutant: the three category keys are set to None without a link element.
KeysSetAlways(elems) == RecordKeys

\* The keys data has when it is returned.
KeysSet(elems) ==
    IF "a.core" \in elems THEN RecordKeys ELSE RecordKeys \ CategoryKeys

\* The dict _extract_product_data returns for a fragment, at instant now.
ExtractedRecord(elems, now) ==
    [k \in KeysSet(elems) |->
        CASE k = "is_official_store" -> "div.bdg._mall" \in elems
          [] k = "scraped_at" -> now
          [] k = "source" -> SourceSite
          [] OTHER -> IF Selector[k] \in elems THEN FieldText(k) ELSE None]

InitExtract ==
    /\ pc = "extract"
    /\ site = SiteNoLinks
    /\ do_categories = FALSE
    /\ do_products = FALSE
    /\ max_products = None
    /\ InitInstance
    /\ InitLoader
    /\ InitOrchestrator
    /\ NoUrlCall
    /\ NoCleanRun
    /\ NoPriceCall
    /\ fragment \in SUBSET SubElements
    /\ record = NoRecord

\* The call self._extract_product_data(product_element).
ExtractCall ==
    /\ pc = "extract"
    /\ \E now \in Days : record' = ExtractedRecord(fragment, now)
    /\ pc' = "extracted"
    /\ UNCHANGED << crawlerVars, loadVars, orchVars, urlVars, cleanVars,
                    priceVars, fragment >>

NextExtract == ExtractCall

SpecExtract == InitExtract /\ [][NextExtract]_vars

(***************************************************************************)
(* PostgresLoader.load_data (SpecLoad): load_data called MaxLoads times on *)
(* one connected loader, each time with a DataFrame of cleaned records and *)
(* a website name.  Only the columns of the UNIQUE constraint and one      *)
(* other column (name) are kept.                                           *)
(***************************************************************************)
Skus == {None, 7}

ScrapedAts == {1, 2}

Names == {1, 2}

Websites == {"jumia", "hmizate"}

CleanedRecords == [sku : Skus, name : Names, scraped_at : ScrapedAts]

\* The DataFrames tried: one row, or two rows with the same scraped_at.
DataFrames ==
    {<< r >> : r \in CleanedRecords}
    \cup {<< r1, r2 >> : r1 \in {r \in CleanedRecords : r.scraped_at = 1},
                         r2 \in {r \in CleanedRecords : r.scraped_at = 1}}

\* df['website'] = website; df = df.where(pd.notnull(df), None);
\* data_tuples = [tuple(x) for x in df[columns].to_numpy()]
DataTuples(df, w) ==
    [i \in 1..Len(df) |->
        [website |-> w, sku |-> df[i].sku, name |-> df[i].name,
         scraped_at |-> df[i].scraped_at]]

\* Equality as a UNIQUE constraint of PostgreSQL takes it: NULL (None) is
\* distinct from every value, NULL included.
SqlEqual(a, b) == a /= None /\ b /= None /\ a = b

\* UNIQUE(website, sku, scraped_at): the row cannot be inserted next to the
\* rows of tbl.  website is NOT NULL and load_data sets it on every row.
Conflict(row, tbl) ==
    \E i \in 1..Len(tbl) :
        /\ tbl[i].website = row.website
        /\ SqlEqual(tbl[i].sku, row.sku)
        /\ SqlEqual(tbl[i].scraped_at, row.scraped_at)

RECURSIVE InsertRows(_, _)
\* INSERT INTO products (...) VALUES %s
\* ON CONFLICT (website, sku, scraped_at) DO NOTHING
InsertRows(tbl, rows) ==
    IF rows = << >> THEN tbl
    ELSE InsertRows(IF Conflict(Head(rows), tbl) THEN tbl ELSE Append(tbl, Head(rows)),
                    Tail(rows))

InitLoad ==
    /\ pc = "loader"
    /\ site = SiteNoLinks
    /\ do_categories = FALSE
    /\ do_products = FALSE
    /\ max_products = None
    /\ InitInstance
    /\ AuxIdle

\* One load_data(df, website) call: the insert is committed, or an exception
\* of the database is logged, the transaction rolled back and the exception
\* raised again.
load_data ==
    /\ pc = "loader"
    /\ loads < MaxLoads
    /\ \E df \in DataFrames, w \in Websites, failed \in BOOLEAN :
        /\ data_tuples' = DataTuples(df, w)
        /\ IF failed
           THEN table' = table /\ load_result' = "raised"
           ELSE table' = InsertRows(table, data_tuples') /\ load_result' = "loaded"
    /\ loads' = loads + 1
    /\ UNCHANGED << pc, crawlerVars, orchVars, urlVars, cleanVars, priceVars, extractVars >>

NextLoad == load_data

SpecLoad == InitLoad /\ [][NextLoad]_vars

(***************************************************************************)
(* Properties                                                              *)
(***************************************************************************)
\* Records the current (or last) scrape_product_list call has appended.
AddedByCall == Len(products) - initial_count

\* C1 (as stated): for every finite cap max_products, the number of records a
\* scrape_product_list call has appended to the shared buffer never exceeds
\* max_products, during the call and after it has returned.
C1_AddedWithinFiniteCap ==
    max_products /= None => AddedByCall <= max_products

\* C1 (amended): for every positive cap max_products, the number of records a
\* scrape_product_list call has appended to the shared buffer never exceeds
\* max_products, during the call and after it has returned; a cap of 0 is
\* treated as no cap.
C1_AddedWithinPositiveCap ==
    max_products > 0 => AddedByCall <= max_products

\* C1 witness: the cap is reached in the middle of a page, with fragments of
\* the page still to come.
C1_Witness ==
    /\ pc = "fragment"
    /\ max_products > 0
    /\ AddedByCall = max_products
    /\ frag_idx <= soup.n
    /\ frag_idx > 1

\* The log of a call whose m attempts all failed transiently: GET, sleep 2,
\* GET, sleep 4, ..., GET.
ExhaustedLog(m) ==
    [i \in 1..(2 * m - 1) |->
        IF i % 2 = 1 THEN [op |-> "get", what |-> "transient", n |-> 0]
        ELSE [op |-> "sleep", what |-> "backoff", n |-> i]]

Gets(log) == {i \in 1..Len(log) : log[i].op = "get"}

Sleeps(log) == {i \in 1..Len(log) : log[i].op = "sleep"}

AllTransient(log) == \A i \in Gets(log) : log[i].what = "transient"

C3_NotFoundIsTerminal ==
    \A i \in 1..Len(req_log) :
        req_log[i].what = "not_found" =>
            /\ i = Len(req_log)
            /\ response = "null"
            /\ pc = ret_pc

\* C3 witness: a 404 on the second attempt of a call that had four attempts.
C3_Witness ==
    /\ Len(req_log) = 3
    /\ req_log[3].what = "not_found"
    /\ max_retries = 4
    /\ pc = "returned"

\* The save calls a step made, as the properties read them.
RawSaveOf(data) == {<< SaveCall("raw", data, o) >> : o \in WriteOutcomes}

RawExport == raw[today]

\* The 10/10/4 scenario: the crawl of the category of SiteThreePages, with cap
\* 15 and an empty buffer at its start, has returned after it reached the cap.
ScenarioDone ==
    /\ site = SiteThreePages
    /\ max_products = 15
    /\ pc = "all_categories"
    /\ cat_idx = 2
    /\ initial_count = 0
    /\ exit_reason = "cap"

\* C4 (as stated): crawling the 3-page category of 10, 10 and 4 listings with
\* cap 15 from an empty buffer ends with exactly 15 buffered records, a final
\* flush of exactly 15 records and exactly 2 next-page follows.
C4_ScenarioTwoFollows ==
    ScenarioDone =>
        /\ Len(products) = 15
        /\ last_saves \in RawSaveOf(products)
        /\ follows = 2

\* C4 (amended): crawling the 3-page category of 10, 10 and 4 listings with
\* cap 15 from an empty buffer ends with exactly 15 buffered records, a final
\* flush of exactly 15 records and exactly 1 next-page follow (2 pages
\* fetched): the cap is reached on the second page and checked before the
\* next-page link is looked up.
C4_ScenarioOneFollow ==
    ScenarioDone =>
        /\ Len(products) = 15
        /\ last_saves \in RawSaveOf(products)
        /\ last_saves[1].len = 15
        /\ last_saves[1].outcome = "ok" => RawExport = WholeFile(CsvRows(products))
        /\ follows = 1
        /\ fetches = 2

\* C4 witness: the scenario has run to its end and the final flush succeeded.
C4_Witness ==
    /\ ScenarioDone
    /\ Len(products) = 15
    /\ RawExport = WholeFile(CsvRows(products))

\* C5 (as stated): with cap None the pagination loop stops only because a
\* fetched page has no listing fragment or because the page has no next-page
\* link (or the link has no target).
C5_UnlimitedStopsOnlyAtEnd ==
    (max_products = None /\ exit_reason /= "none") =>
        exit_reason \in {"empty", "no_next", "no_href"}

\* C5 (amended): with cap None the pagination loop stops only because a
\* fetched page has no listing fragment, because the page has no next-page
\* link (or the link has no target), because the fetch returned None, or
\* because an exception was raised while the page was processed; never
\* because of the number of records collected.
C5_UnlimitedStops ==
    (max_products = None /\ exit_reason /= "none") =>
        \/ exit_reason = "empty" /\ soup.n = 0
        \/ exit_reason = "no_next" /\ ~soup.button /\ frag_idx = soup.n + 1
        \/ exit_reason = "no_href" /\ soup.button /\ frag_idx = soup.n + 1
              /\ handle_url(soup.next) = NoneUrl
        \/ exit_reason = "no_response"
        \/ exit_reason = "exception"

\* C5 witness: an unlimited crawl was ended by a fetch that returned None,
\* after records had been collected.
C5_Witness ==
    /\ max_products = None
    /\ exit_reason = "no_response"
    /\ AddedByCall > 0
    /\ pc = "list_exit"

\* C6: when a fetched category page that parses has no listing fragment, the
\* crawl of the category stops without raising: the next step leaves the
\* loop with no record appended and no link followed, and from there the
\* call only returns: no further fetch is issued for the category.
C6_EmptyPageStops ==
    [][ /\ (pc = "page" /\ response = "ok" /\ PageAt(current_url).n = 0
              /\ pc' /= "interrupted" /\ exit_reason' /= "exception") =>
            /\ pc' = "list_exit"
            /\ exit_reason' = "empty"
            /\ products' = products
            /\ << follows', fetches', calls' >> = << follows, fetches, calls >>
        /\ (pc = "list_exit" /\ exit_reason = "empty" /\ pc' /= "interrupted") =>
            /\ pc' = "all_categories"
            /\ cat_idx' = cat_idx + 1
            /\ products' = products
            /\ << follows', fetches', calls' >> = << follows, fetches, calls >>
      ]_vars

\* C6 witness: the crawl of a category has returned after an empty second page.
C6_Witness ==
    /\ pc = "all_categories"
    /\ exit_reason = "empty"
    /\ page_num = 2
    /\ AddedByCall > 0

\* A step that appends a record and makes the buffer's total length a
\* multiple of 100.
AppendToMultiple ==
    /\ Len(products') = Len(products) + 1
    /\ Len(products') % 100 = 0

ListReturns == pc = "list_exit" /\ pc' = "all_categories"

CancelledDone == pc = "done" /\ cancelled /\ products /= << >>

C10_SessionClosedOnce ==
    /\ closes <= 1
    /\ pc = "done" => closes = 1 /\ ~session_open
    /\ closes = 1 => pc = "done"
    /\ pc = "request" => session_open /\ closes = 0

\* C10 witness: run has returned after a KeyboardInterrupt that arrived while
\* a request was being retried, with the session closed once.
C10_Witness ==
    /\ pc = "done"
    /\ cancelled
    /\ attempt > 0
    /\ response = "none"
    /\ closes = 1

\* The URLs of the scrape_product_list calls made so far, in call order.
InvokedUrls == [i \in 1..Len(invoked) |-> invoked[i].url]

CategoryUrls == [i \in 1..Len(categories) |-> categories[i].url]

\* run() has ended without a KeyboardInterrupt.
RunEnded == pc \in {"completed", "done"} /\ ~cancelled

\* C11: when run is called with scrape_products true and the category list is
\* not empty, scrape_product_list is invoked exactly once for every category,
\* in discovery order, also after the crawl of an earlier category ended with
\* a None fetch result, a page-processing exception or an exception raised
\* by scrape_product_list itself: during the run the calls made are those
\* for the first categories of the list, and when the try block of run ends
\* (which it does normally) they are those for all of them.
C11_EveryCategoryCrawled ==
    /\ Len(invoked) <= Len(categories)
    /\ InvokedUrls = SubSeq(CategoryUrls, 1, Len(invoked))
    /\ (\/ pc \in {"loop", "page", "fragment", "page_end", "list_exit"}
        \/ pc = "request" /\ ret_pc = "page") => Len(invoked) = cat_idx
    /\ pc = "all_categories" => Len(invoked) = cat_idx - 1
    /\ (RunEnded /\ do_products /\ categories /= << >>) =>
          InvokedUrls = CategoryUrls
    /\ (RunEnded /\ ~do_products) => invoked = << >>

\* C11 witness: the run has ended normally after the crawls of two
\* categories of 60 listings, with no cap; the first crawl failed on its
\* first page (a None fetch result or an exception) and left no record, the
\* second was made all the same and collected its records.
C11_Witness ==
    /\ pc = "completed"
    /\ ~cancelled
    /\ site = SiteTwoBig
    /\ max_products = None
    /\ invoked = << InvokedCall(Url("site", 11), "entered"),
                    InvokedCall(Url("site", 21), "entered") >>
    /\ Len(products) = 60
    /\ products[1].category = 21

\* The same after an exception raised by the first scrape_product_list call
\* itself.
C11_WitnessRaised ==
    /\ pc = "completed"
    /\ ~cancelled
    /\ Len(invoked) = 2
    /\ invoked[1].end = "raised"
    /\ invoked[2].end = "entered"
    /\ products /= << >>

\* C12: when the fetch of the site root returns None (retries exhausted or
\* 404), scrape_categories does not raise and leaves the category list
\* empty, and run(scrape_categories=True, scrape_products=True) then
\* completes without an exception, issues no category-page fetch and
\* buffers no product: the home page request stays the only request, no
\* scrape_product_list call is made, and the run goes from scrape_categories
\* straight to the end of its try block and to close().
C12_UnreachableRootEmptyRun ==
    (do_categories /\ do_products /\ home_fetch = "null") =>
        /\ categories = << >>
        /\ products = << >>
        /\ invoked = << >>
        /\ calls = 1
        /\ req_url = base_url
        /\ fetches = 0
        /\ pc \in {"completed", "done"}
        /\ ~cancelled
        /\ raw = [d \in Days |-> NoFile]

\* C12 witness: a run on a site with category links has returned after the
\* third attempt to fetch the home page failed.
C12_Witness ==
    /\ pc = "done"
    /\ do_categories
    /\ do_products
    /\ home_fetch = "null"
    /\ site = SiteThreePages
    /\ attempt = 2
    /\ categories = << >>
    /\ closes = 1

\* The key of a stored or loaded row.
KeyOf(row) == << row.website, row.sku, row.scraped_at >>

RowsWithKey(tbl, k) == {i \in 1..Len(tbl) : KeyOf(tbl[i]) = k}

\* C13 (as stated): load_data is insert-if-absent on the key (website, sku,
\* scraped_at): a load of a record whose key is already in the products
\* table adds no row for that key and leaves the stored rows unchanged, so
\* that a record loaded twice has exactly one row; for every record, also
\* one whose sku is null.
C13_InsertIfAbsent ==
    [][(loads' = loads + 1 /\ load_result' = "loaded") =>
          \A i \in 1..Len(data_tuples') :
              LET k == KeyOf(data_tuples'[i])
              IN  RowsWithKey(table, k) /= {} =>
                      /\ RowsWithKey(table', k) = RowsWithKey(table, k)
                      /\ \A j \in RowsWithKey(table, k) : table'[j] = table[j]
      ]_vars

\* C13, for the keys without a null: a load of a record whose key has no
\* null column and is already in the products table adds no row for that key
\* and leaves the stored rows unchanged, and no such key ever has two rows.
C13_InsertIfAbsentNonNull ==
    /\ [][(loads' = loads + 1 /\ load_result' = "loaded") =>
            \A i \in 1..Len(data_tuples') :
                LET k == KeyOf(data_tuples'[i])
                IN  (k[2] /= None /\ k[3] /= None) =>
                        /\ Cardinality(RowsWithKey(table', k)) = 1
                        /\ RowsWithKey(table, k) /= {} =>
                               /\ RowsWithKey(table', k) = RowsWithKey(table, k)
                               /\ \A j \in RowsWithKey(table, k) : table'[j] = table[j]
        ]_vars
    /\ [][load_result' = "raised" => table' = table]_vars

\* C14: ScraperOrchestrator.run with a site identifier that is not
\* registered raises ValueError before any scraper is constructed and before
\* any network request is issued, and no partial work is done: no directory
\* or session is made, nothing is fetched, collected or written.
C14_UnknownSiteRaisesFirst ==
    (lower(website) \notin SCRAPERS /\ pc /= "orchestrator") =>
        /\ pc = "raised"
        /\ orch_error = "ValueError"
        /\ built = 0
        /\ ~data_dir
        /\ ~session_open
        /\ calls = 0
        /\ req_log = << >>
        /\ categories = << >>
        /\ products = << >>
        /\ raw = [d \in Days |-> NoFile]
        /\ closes = 0

\* C14 witness: run was called with an unregistered identifier in upper case
\* and has raised.
C14_Witness ==
    /\ website = "AMAZON"
    /\ pc = "raised"
    /\ orch_error = "ValueError"

\* The url begins with a scheme the resolver recognises.
IsAbsolute(v) ==
    ~v.none /\ (StartsWith(v.text, << "http://" >>) \/ StartsWith(v.text, << "https://" >>))

\* C15: for every absolute URL u (one starting with http:// or https://)
\* and every base (including no base), handle_url(u, base) returns u
\* unchanged.
C15_AbsoluteUnchanged ==
    (pc = "handled" /\ IsAbsolute(url_arg)) => url_result = url_arg

\* C15 witness: the call of the test, with the site's base URL given as well.
C15_Witness ==
    /\ pc = "handled"
    /\ url_arg = Str(<< "https://", "www.jumia.ma", "/", "product" >>)
    /\ base_arg = Str(JumiaBaseUrl \o << "/" >>)
    /\ url_result = url_arg

\* A URL given without a scheme: a host, alone or followed by a path.
IsBareHost(v) ==
    /\ ~v.none
    /\ StartsWith(v.text, << "www.jumia.ma" >>)
    /\ Len(v.text) > 1 => v.text[2] = "/"

\* C16: for a URL given without a scheme (a bare host and path) and without
\* a base_url, handle_url returns a URL that starts with "https://" and
\* still contains the original host.
C16_SchemeAdded ==
    (pc = "handled" /\ IsBareHost(url_arg) /\ base_arg = PyNone) =>
        /\ StartsWith(url_result.text, << "https://" >>)
        /\ \E i \in 1..Len(url_result.text) : url_result.text[i] = "www.jumia.ma"

\* The string a category's 'url' holds.
FullUrl(c) == handle_url_str(Spelling(c.href), Str(JumiaBaseUrl))

\* C17: the category list one scrape_categories call produces is
\* deduplicated by URL: no two of its categories have the same absolute
\* url, whatever hrefs (relative or absolute spellings of the same target)
\* the home page contains.
C17_DedupByUrl ==
    \A i \in 1..Len(categories), j \in 1..Len(categories) :
        FullUrl(categories[i]) = FullUrl(categories[j]) => i = j

\* C17, for the raw hrefs: no two categories of one scrape_categories call
\* were built from the same href string.
C17_DedupByHref ==
    \A i \in 1..Len(categories), j \in 1..Len(categories) :
        Spelling(categories[i].href) = Spelling(categories[j].href) => i = j

\* C18: every category scrape_categories produces comes from a link that is
\* not fragment-only, has a visible text longer than 2 characters, has an
\* href no earlier category of the call was built from, and has a url on
\* the site's own origin, never on an external one.
C18_CategoriesFiltered ==
    \A i \in 1..Len(categories) :
        /\ ~StartsWith(Spelling(categories[i].href).text, << "#" >>)
        /\ categories[i].name > 2
        /\ \A j \in 1..(i - 1) : categories[j].href /= categories[i].href
        /\ categories[i].url.origin = "site"
        /\ ParseUrl(FullUrl(categories[i])) = categories[i].url

\* C18, the origin apart: every category comes from a link that is not
\* fragment-only, has a visible text longer than 2 characters and an href
\* no earlier category of the call was built from, and its url is either on
\* the site or begins with the characters of the site's base URL.
C18_CategoriesFilteredByPrefix ==
    \A i \in 1..Len(categories) :
        /\ ~StartsWith(Spelling(categories[i].href).text, << "#" >>)
        /\ categories[i].name > 2
        /\ \A j \in 1..(i - 1) : categories[j].href /= categories[i].href
        /\ StartsWith(FullUrl(categories[i]).text, JumiaBaseUrl)

\* The raw files with a malformed scraped_at in some row.
MalformedFiles ==
    {f \in 1..Len(raw_dir.files) :
        /\ raw_dir.files[f].has_scraped_at
        /\ \E i \in 1..Len(raw_dir.files[f].scraped_at) :
              raw_dir.files[f].scraped_at[i] = MalformedText}

\* C19: a malformed scraped_at timestamp in a raw row makes the cleaning
\* pass fail loudly: the run over a directory with such a row does not
\* return True, and neither the value nor its file is silently nulled or
\* skipped.
C19_MalformedTimestampSurfaced ==
    (pc = "clean_done" /\ MalformedFiles /= {}) => run_result /= "True"

\* C19, as far as clean goes: a file with a malformed scraped_at is never
\* saved with the value nulled; its clean raises, which run logs.
C19_MalformedTimestampNotNulled ==
    \A f \in MalformedFiles :
        /\ f \notin DOMAIN processed
        /\ (f < file_idx) =>
              \E i \in 1..Len(clean_errors) : clean_errors[i].file = f

(***************************************************************************)
(* C20                                                                     *)
(***************************************************************************)
\* The characters of a text that are digits, '.' or ','.
KeptChars(t) == SelectSeq(t, LAMBDA c : c \in Digits \cup {".", ","})

\* The separators of a text, in order of appearance.
Separators(t) == SelectSeq(t, LAMBDA c : c \in {".", ","})

BothSeparators(t) ==
    {Separators(t)[i] : i \in 1..Len(Separators(t))} = {".", ","}

\* The separator read as the decimal point: the one that appears later when
\* both occur, else the only one there is.
DecimalSeparator(t) ==
    IF BothSeparators(t) THEN (IF Separators(t)[1] = "," THEN "." ELSE ",")
    ELSE IF Separators(t) /= << >> THEN Separators(t)[1]
    ELSE "."

\* The positions of KeptChars(t) holding a decimal separator.
DecimalPoints(t) ==
    {i \in 1..Len(KeptChars(t)) : KeptChars(t)[i] = DecimalSeparator(t)}

\* What is left is a number: at least one digit, at most one decimal point.
Numeric(t) ==
    /\ \E i \in 1..Len(KeptChars(t)) : KeptChars(t)[i] \in Digits
    /\ Cardinality(DecimalPoints(t)) <= 1

\* The number claimed for a numeric text: its digits, of which those after
\* the decimal point are the fraction.
ClaimedPrice(t) ==
    LET k == KeptChars(t)
        fraction == IF DecimalPoints(t) = {} THEN 0
                    ELSE LET p == CHOOSE i \in DecimalPoints(t) : TRUE
                         IN Cardinality({i \in (p + 1)..Len(k) : k[i] \in Digits})
    IN Float(DigitsValue(SelectSeq(k, LAMBDA c : c \in Digits)), fraction)

\* C20: _clean_price keeps only digits, '.' and ','; when both separators
\* occur the one appearing first is dropped as a thousands separator and the
\* other is the decimal point; when only ',' occurs it is the decimal point;
\* a null cell, an empty remainder or a non-numeric remainder gives None (the
\* call always returns).  "1,229.00 DH" gives 1229.00, "299,99 DH" gives
\* 299.99 and None gives None.
C20_CleanPrice ==
    pc = "cleaned" =>
        /\ price_result /= PendingPrice
        /\ price_str.kind \in {"None", "nan"} => price_result = NoPrice
        /\ price_str.kind = "str" =>
              price_result = IF Numeric(price_str.text)
                             THEN ClaimedPrice(price_str.text)
                             ELSE NoPrice
        /\ price_str = TextCell(<< "1", ",", "2", "2", "9", ".", "0", "0",
                                    " ", "D", "H" >>)
              => price_result = Float(122900, 2)
        /\ price_str = TextCell(<< "2", "9", "9", ",", "9", "9", " ", "D", "H" >>)
              => price_result = Float(29999, 2)

\* Reached: "299,99 DH" has been cleaned to 299.99.
C20_Witness ==
    /\ pc = "cleaned"
    /\ price_str = TextCell(<< "2", "9", "9", ",", "9", "9", " ", "D", "H" >>)
    /\ price_result = [kind |-> "float", mant |-> 29999, scale |-> 2]

\* Reached: "1,229.00 DH" has been cleaned to 1229.00.
C20_WitnessThousands ==
    /\ pc = "cleaned"
    /\ price_str = TextCell(<< "1", ",", "2", "2", "9", ".", "0", "0",
                              " ", "D", "H" >>)
    /\ price_result = [kind |-> "float", mant |-> 1229, scale |-> 0]

\* Reached: a text whose remainder is no number ("1,229,000" is read as
\* 1.229.000) gives None.
C20_WitnessNonNumeric ==
    /\ pc = "cleaned"
    /\ price_str = TextCell(<< "1", ",", "2", "2", "9", ",", "0", "0", "0" >>)
    /\ price_result = NoPrice

(***************************************************************************)
(* C21                                                                     *)
(***************************************************************************)
PoliteSleeps(log) == {i \in Sleeps(log) : log[i].what = "polite"}

\* C21: a _make_request call that returns a response has slept the
\* politeness delay exactly once, right after the successful GET and as the
\* last thing before returning; a call that returns None has never slept it;
\* and a failed GET is followed by a backoff sleep or by the return, nothing
\* else.
C21_PoliteSleepOnSuccessOnly ==
    /\ (pc = "returned" /\ calls > 0 /\ response = "ok") =>
          /\ PoliteSleeps(req_log) = {Len(req_log)}
          /\ req_log[Len(req_log)].n = DefaultDelay
          /\ Len(req_log) >= 2
          /\ req_log[Len(req_log) - 1] = [op |-> "get", what |-> "success", n |-> 0]
    /\ (pc = "returned" /\ calls > 0 /\ response = "null") =>
          PoliteSleeps(req_log) = {}
    /\ \A i \in Gets(req_log) :
          req_log[i].what /= "success" =>
              IF i = Len(req_log) THEN pc = ret_pc /\ response = "null"
              ELSE req_log[i + 1].op = "sleep" /\ req_log[i + 1].what = "backoff"

\* C21 witness: a call has returned a response on its third attempt, after
\* two backoff sleeps and one politeness sleep.
C21_Witness ==
    /\ pc = "returned"
    /\ response = "ok"
    /\ Len(req_log) = 6
    /\ req_log[2].what = "backoff"
    /\ req_log[4].what = "backoff"
    /\ req_log[5].what = "success"
    /\ req_log[6] = [op |-> "sleep", what |-> "polite", n |-> DefaultDelay]

(***************************************************************************)
(* C22                                                                     *)
(***************************************************************************)
\* A _make_request call is in progress: between its entry and its return.
FetchInFlight == pc = "request" /\ response = "none"

\* C22: a cancel takes effect only between pages or between categories; one
\* that arrives while a fetch is in flight does not abort the fetch: a call of
\* _make_request in progress is left only by its own return, and the cancel
\* is acted upon at the head of the page loop or of the category loop.
C22_CancelAtLoopBoundary ==
    [][/\ FetchInFlight => pc' \in {"request", ret_pc}
       /\ pc' = "interrupted" => pc \in {"loop", "all_categories"}]_vars

(***************************************************************************)
(* C23                                                                     *)
(***************************************************************************)
\* A page fetch of scrape_product_list has been issued and not yet consumed.
PageFetchIssued == ret_pc = "page" /\ pc \in {"request", "page"}

\* C23 (as stated): scrape_product_list never issues a page fetch while the
\* records it has added for the current category are at or above the cap,
\* whatever the (non-null) cap.
C23_NoFetchAtCap ==
    (PageFetchIssued /\ max_products /= None) => AddedByCall < max_products

\* C23 (amended): with a positive cap, scrape_product_list never issues a
\* page fetch while the records it has added for the current category are at
\* or above the cap; a cap of 0 is treated as no cap.
C23_NoFetchAtPositiveCap ==
    (PageFetchIssued /\ max_products > 0) => AddedByCall < max_products

\* C23 witness: with a cap of 15, the second page is being fetched after the
\* first one gave 10 records.
C23_Witness ==
    /\ pc = "request"
    /\ ret_pc = "page"
    /\ max_products = 15
    /\ AddedByCall = 10
    /\ fetches = 2

\* Reached: with a cap of 15 the call has left its loop at the check after
\* the second page, having made two fetches for three pages.
C23_WitnessStopped ==
    /\ pc = "list_exit"
    /\ exit_reason = "cap"
    /\ max_products = 15
    /\ AddedByCall = 15
    /\ fetches = 2
    /\ soup.button

(***************************************************************************)
(* C24                                                                     *)
(***************************************************************************)
BackoffSleeps(log) == {i \in Sleeps(log) : log[i].what = "backoff"}

\* C24: retry accounting is local to one _make_request call.  In every call,
\* the first as well as those that follow calls that succeeded, got a 404 or
\* exhausted their retries, the attempt counter equals the number of GETs
\* the call itself has made (so the call starts at its first attempt), the
\* call makes at most max_retries GETs, and its k-th backoff sleep lasts 2k
\* seconds (so the backoff restarts at 2 seconds).
C24_RetryAccountingPerCall ==
    calls > 0 =>
        /\ pc = "request" => attempt = Cardinality(Gets(req_log))
        /\ Cardinality(Gets(req_log)) <= max_retries
        /\ \A i \in BackoffSleeps(req_log) :
              req_log[i].n = 2 * Cardinality({j \in BackoffSleeps(req_log) : j <= i})

\* C24 witness: a call that is not the first has used all of its three
\* attempts, sleeping 2 and then 4 seconds.
C24_Witness ==
    /\ calls >= 2
    /\ pc = "returned"
    /\ max_retries = 3
    /\ req_log = ExhaustedLog(3)
    /\ req_log[2].n = 2
    /\ req_log[4].n = 4

(***************************************************************************)
(* C25                                                                     *)
(***************************************************************************)
\* The keys whose sub-element the fragment lacks.
MissingKeys == {k \in DOMAIN Selector : Selector[k] \notin fragment}

\* C25: for a fragment lacking any subset of its optional sub-elements,
\* _extract_product_data returns a record in which every field is present:
\* the fields whose element is missing (brand, sku, category, category_2 and
\* category_3 among them when the detail link is missing) are null and the
\* other fields are unaffected.
C25_EveryFieldPresent ==
    pc = "extracted" =>
        /\ DOMAIN record = RecordKeys
        /\ \A k \in MissingKeys : record[k] = None
        /\ \A k \in DOMAIN Selector \ MissingKeys : record[k] = FieldText(k)

\* What holds of a fragment lacking sub-elements: a dict is returned, the
\* keys it lacks are the three category keys of a fragment without a detail
\* link, every other field of a missing element is None and the fields of
\* the elements that are there are unaffected.
C25_MissingNullOrAbsent ==
    pc = "extracted" =>
        /\ RecordKeys \ DOMAIN record \subseteq CategoryKeys \cap MissingKeys
        /\ \A k \in MissingKeys \cap DOMAIN record : record[k] = None
        /\ \A k \in DOMAIN Selector \ MissingKeys :
              k \in DOMAIN record /\ record[k] = FieldText(k)
        /\ record.is_official_store = ("div.bdg._mall" \in fragment)

(***************************************************************************)
(* C26                                                                     *)
(***************************************************************************)
\* C26: the products buffer is append-only over a whole run: every step
\* (page processing, a cap stopping the page, a flush, a failed category,
\* the handling of an interruption) leaves the records already in the buffer
\* in place, in order and unmodified, so the records of earlier categories
\* are unchanged while a later one is crawled.
C26_BufferAppendOnly ==
    [][/\ Len(products') >= Len(products)
       /\ SubSeq(products', 1, Len(products)) = products]_vars

\* C26 witness: the second category is being crawled after a flush at 100
\* records; the buffer holds the 60 records of the first category followed
\* by records of the second.
C26_Witness ==
    /\ pc = "fragment"
    /\ cat_idx = 2
    /\ initial_count = 60
    /\ Len(products) > FlushEvery
    /\ \A i \in 1..60 : products[i].category = 11
    /\ products[Len(products)].category = 21
    /\ last_saves /= << >>

(***************************************************************************)
(* C27                                                                     *)
(***************************************************************************)
\* The registered identifiers whose scraper is a placeholder.
Unimplemented == SCRAPERS \ {"jumia"}

\* C27: for every registered site identifier whose scraper is not
\* implemented, ScraperOrchestrator.run signals NotImplementedError without
\* issuing any network request; the base constructor accepts the identifier
\* (the scraper is constructed: directories and session are made).
C27_UnimplementedNotSupported ==
    (lower(website) \in Unimplemented /\ pc /= "orchestrator") =>
        /\ pc = "raised"
        /\ orch_error = "NotImplementedError"
        /\ built = 1
        /\ data_dir
        /\ calls = 0
        /\ req_log = << >>

\* What holds for the placeholder scrapers: the run raises, with the
\* NotImplementedError of the placeholder or the ValueError of the base
\* constructor, and issues no network request.
C27_UnimplementedRaises ==
    (lower(website) \in Unimplemented /\ pc /= "orchestrator") =>
        /\ pc = "raised"
        /\ orch_error \in {"NotImplementedError", "ValueError"}
        /\ orch_error = "ValueError" <=> lower(website) \notin sites_available
        /\ calls = 0
        /\ req_log = << >>

(***************************************************************************)
(* C28                                                                     *)
(***************************************************************************)
\* The three cap checks of scrape_product_list as they come out, in the
\* current state, for a cap of mp.
CapChecks(mp) ==
    << LoopCapCheck(mp, Len(products), initial_count),
       FragmentCapCheck(mp, Len(products), initial_count),
       PageEndCapCheck(mp, Len(products), initial_count) >>

\* C28: scrape_product_list with max_products = 0 behaves like the call with
\* max_products = None.  In every state of a crawl the three cap checks
\* (the only places where max_products is read) come out the same for 0 as
\* for None, namely false, so the two calls take the same steps; the crawl
\* is never left because of the cap, and a crawl left because of the cap has
\* a positive cap.
C28_ZeroCapIsNoCap ==
    /\ CapChecks(0) = CapChecks(None)
    /\ max_products \in {0, None} =>
          /\ CapChecks(max_products) = << FALSE, FALSE, FALSE >>
          /\ exit_reason /= "cap"
    /\ exit_reason = "cap" => max_products > 0

\* C28 witness: with max_products = 0 the call has added all 24 records of
\* the three pages and left its loop at the last page.
C28_Witness ==
    /\ max_products = 0
    /\ site = SiteThreePages
    /\ AddedByCall = 24
    /\ exit_reason = "no_next"
    /\ fetches = 3

(***************************************************************************)
(* C29                                                                     *)
(***************************************************************************)
\* C29: with a positive cap, every fetch call returning and every non-empty
\* page giving at least one record, a scrape_product_list call makes at most
\* max_products page fetches and returns, even when the next-page links form
\* a cycle.  With no cap and cyclic next-page links over non-empty pages the
\* call never terminates: it is never left because of a cap, an empty page
\* or a missing next link, and leaves its loop only if the premise fails (a
\* fetch gives no page, or processing a page raises).
C29_CappedCycleTerminates ==
    /\ [](max_products > 0 => fetches <= max_products)
    /\ (pc = "loop" /\ max_products > 0) ~> (pc = "list_exit")
    /\ [](max_products = None =>
            exit_reason \in {"none", "no_response", "exception"})

\* C29 witness: with a cap of 2 on the page that links to itself, the call
\* has followed the cycle once and left its loop on the cap after two
\* fetches.
C29_Witness ==
    /\ site = SiteSelfLoop
    /\ max_products = 2
    /\ pc = "list_exit"
    /\ exit_reason = "cap"
    /\ fetches = 2
    /\ follows = 1
    /\ AddedByCall = 2

\* Reached: without a cap the crawl of the cycle is still going on at the
\* last page fetch tried.
C29_WitnessUnlimited ==
    /\ max_products = None
    /\ pc = "loop"
    /\ fetches = MaxFetches
    /\ follows = MaxFetches

(***************************************************************************)
(* C30                                                                     *)
(***************************************************************************)
\* Buffered records the raw export does not hold.
Unpersisted == Len(products) - Len(RawExport.rows)

\* C30: when the writes of the export succeed and the date does not change
\* during the run, in every state after the first flush the persisted raw
\* export is a prefix of the products buffer (its rows are the CSV rows of
\* the first records of the buffer, in order) and at most 99 buffered
\* records are not yet persisted.
C30_ExportIsRecentPrefix ==
    RawExport.exists =>
        /\ RawExport.complete
        /\ Len(RawExport.rows) <= Len(products)
        /\ RawExport.rows = CsvRows(SubSeq(products, 1, Len(RawExport.rows)))
        /\ Unpersisted <= FlushEvery - 1

\* C30 witness: after the flush at 100 records, 99 more records are buffered
\* and not yet persisted.
C30_Witness ==
    /\ RawExport.exists
    /\ Len(RawExport.rows) = 100
    /\ Len(products) = 199
    /\ Unpersisted = 99
    /\ pc = "page_end"

====
